---------------------------- MODULE Spec2Model ----------------------------
(***************************************************************************)
(* The chat session of app.py: the Streamlit script that keeps a           *)
(* conversation in st.session_state, gates sending on an API key, sends    *)
(* text and an optional image to a remote generation service and records   *)
(* the reply, a notice or an error as an assistant message.                *)
(*                                                                         *)
(* A step of the model is one run of the script, started by one user      *)
(* interaction (a widget change, the clear button, the send button).       *)
(* Text is a sequence of tokens: "" is << >>, concatenation is \o, and a   *)
(* Python truth test of a string is a test against << >>.                  *)
(***************************************************************************)
EXTENDS Integers, Sequences, FiniteSets, TLC

VARIABLES
    messages,            \* st.session_state.messages
    api_key_configured,  \* st.session_state.api_key_configured
    gemini_model,        \* st.session_state.gemini_model
    api_key,             \* value held by the "api_key_input" widget
    gate_notice,         \* the sidebar notice of the credential gate
    notice,              \* the st.error / st.warning left on the page by the run
    requests,            \* the generate_content calls made by the latest run
    run                  \* the latest run: its button, its inputs, the state it started from

vars == <<messages, api_key_configured, gemini_model, api_key, gate_notice,
          notice, requests, run>>

-----------------------------------------------------------------------------
(* Bounds and input domains                                                *)

MaxMsgs == 4

EmptyStr == << >>

\* Values the API key widget takes; genai.configure raises on RejectedKeys.
Keys == {EmptyStr, <<"key-A">>, <<"key-B">>}
RejectedKeys == {<<"key-B">>}

\* The selectbox options, lines 114-120.
ModelOptions == {"gemini-2.5-flash", "gemini-2.5-pro", "gemini-2.0-flash",
                 "gemini-flash-latest", "gemini-pro-latest"}

\* The models the sends of the model select.
Models == {"gemini-2.5-flash", "gemini-pro-latest"}

\* Slider positions in tenths (0.0 .. 2.0 step 0.1); the sends use the default.
Temperatures == {10}

Texts == {EmptyStr, <<"Hello">>}
Replies == {<<"Hi there">>}
Details == {<<"quota exceeded">>}

\* Wall-clock minutes of the day read by datetime.now().
Times == {785}

SizeLimit == 4 * 1024 * 1024

\* An uploaded file: none, a file PIL cannot open, or an image with the
\* byte size of its re-encoding.
NoFile == [kind |-> "none", size |-> 0]
CorruptFile == [kind |-> "corrupt", size |-> 0]
ImageFile(s) == [kind |-> "image", size |-> s]
Files == {NoFile, CorruptFile, ImageFile(SizeLimit), ImageFile(SizeLimit + 1)}

\* What the remote service does when called: generate_content raises, or it
\* returns a response whose text attribute is missing, readable (possibly
\* empty) or raises on access, with zero or more candidates.
Raise(d) == [kind |-> "raise", attr |-> "none", text |-> EmptyStr,
             detail |-> d, candidates |-> 0]
Response(a, t, d, c) == [kind |-> "response", attr |-> a, text |-> t,
                         detail |-> d, candidates |-> c]
Outcomes ==
    {Raise(d) : d \in Details}
    \cup {Response("value", t, EmptyStr, 1) : t \in Replies}
    \cup {Response("value", EmptyStr, EmptyStr, c) : c \in {0, 1}}
    \cup {Response("absent", EmptyStr, EmptyStr, 0)}
    \cup {Response("raises", EmptyStr, d, 0) : d \in Details}

NoOutcome == [kind |-> "none", attr |-> "none", text |-> EmptyStr,
              detail |-> EmptyStr, candidates |-> 0]

-----------------------------------------------------------------------------
(* Text helpers                                                            *)

Truthy(s) == s # EmptyStr

Contains(s, sub) ==
    \E i \in 1..(Len(s) + 1) : \E j \in (i - 1)..Len(s) : SubSeq(s, i, j) = sub

IsPrefix(s, t) == Len(s) <= Len(t) /\ SubSeq(t, 1, Len(s)) = s

\* datetime.strftime("%I:%M %p"): 12-hour clock, minutes, AM/PM.
Strftime(t) ==
    LET h24 == (t \div 60) % 24
        h12 == IF h24 % 12 = 0 THEN 12 ELSE h24 % 12
    IN  <<h12, t % 60, IF h24 < 12 THEN "AM" ELSE "PM">>


-----------------------------------------------------------------------------
(* Fixed strings of the script (emoji prefixes left out)                   *)

DefaultUserContent == <<"Please analyze this image.">>
DefaultPrompt == <<"Please analyze this image and describe what you see in detail.">>
BlockedNotice == <<"Response was blocked or empty. Try rephrasing your prompt.">>
NoResponseNotice == <<"No response generated. Please try again.">>
SizeError == <<"Image size exceeds 4MB limit">>
DecodeError == <<"cannot identify image file">>

-----------------------------------------------------------------------------
(* Credential gate, sidebar                                                *)

\* genai.configure(api_key=...) raises or returns.
ConfigureRaises(k) == k \in RejectedKeys

CredentialGate(k) ==
    IF Truthy(k)
    THEN IF ConfigureRaises(k)
         THEN [configured |-> FALSE, notice |-> "invalid"]
         ELSE [configured |-> TRUE, notice |-> "success"]
    ELSE [configured |-> FALSE, notice |-> "missing"]

-----------------------------------------------------------------------------
(* Conversation store                                                      *)

\* A message dict.  image = NoFile stands for a dict without the "image"
\* key, is_error = FALSE for one without the "is_error" key.
Message(r, c, ts, img, err) ==
    [role |-> r, content |-> c, timestamp |-> ts, image |-> img, is_error |-> err]

\* Variant: the new message is put in front of the store.
StoreAppend_Front(msgs, m) == <<m>> \o msgs

StoreAppend(msgs, m) == Append(msgs, m)

\* Variant: the clear button leaves the store as it is.
ClearedStore_Keep(msgs) == msgs

ClearedStore(msgs) == << >>

\* Render loop: a message without content and without image is skipped.
Skipped(m) == ~Truthy(m.content) /\ m.image = NoFile

MessageClass(m) ==
    IF m.is_error THEN "error-message"
    ELSE IF m.role = "user" THEN "user-message"
    ELSE "assistant-message"

Rendered(msgs) ==
    LET Shown(m) == ~Skipped(m)
        shown == SelectSeq(msgs, Shown)
    IN  [i \in 1..Len(shown) |->
            [class |-> MessageClass(shown[i]), image |-> shown[i].image,
             content |-> shown[i].content, timestamp |-> shown[i].timestamp]]

-----------------------------------------------------------------------------
(* Send handler                                                            *)

\* Variant: the handler does not look at the credential flag.
NotConfigured_SkipGate(flag) == FALSE

NotConfigured(flag) == ~flag

\* Variant: the input check tests for an image where it should test for none.
InputMissing_ImageOnly(text, file) == ~Truthy(text) /\ file # NoFile

InputMissing(text, file) == ~Truthy(text) /\ file = NoFile

\* Variant: no default content for an image sent without text.
UserContent_Raw(text) == text

UserContent(text) == IF Truthy(text) THEN text ELSE DefaultUserContent

\* Variant: the user message always carries the default content.
UserMessage_DefaultContent(text, file, t) ==
    Message("user", DefaultUserContent, Strftime(t), file, FALSE)

UserMessage(text, file, t) ==
    Message("user", UserContent(text), Strftime(t), file, FALSE)

\* Variant: an image of exactly the limit is rejected too.
ImageTooLarge_Inclusive(size) == size >= SizeLimit

ImageTooLarge(size) == size > SizeLimit

Prompt(text) == IF Truthy(text) THEN text ELSE DefaultPrompt

ImagePart(file) == [part |-> "image", image |-> file, text |-> EmptyStr]
TextPart(text) == [part |-> "text", image |-> NoFile, text |-> text]

\* top_p is in hundredths (0.95), temperature in tenths.
GenerationConfig(temp) ==
    [temperature |-> temp, top_p |-> 95, top_k |-> 40, max_output_tokens |-> 8192]

\* The model is built from model_option itself; the "models/"-prefixed
\* model_name of line 265 is not used.
Request(model, temp, parts) ==
    [model_name |-> model, generation_config |-> GenerationConfig(temp),
     content_parts |-> parts]

\* The result of the try block: the calls it made, and either the assistant
\* response or the detail of the exception that left it.
Returned(reqs, text) ==
    [requests |-> reqs, raised |-> FALSE, detail |-> EmptyStr, response |-> text]
Raised(reqs, d) ==
    [requests |-> reqs, raised |-> TRUE, detail |-> d, response |-> EmptyStr]

\* Variant: the two notices are exchanged.
ResponseText_Swapped(reqs, out) ==
    IF out.attr = "raises" THEN Raised(reqs, out.detail)
    ELSE IF out.attr = "value" /\ Truthy(out.text) THEN Returned(reqs, out.text)
    ELSE IF out.candidates > 0 THEN Returned(reqs, NoResponseNotice)
    ELSE Returned(reqs, BlockedNotice)

\* Lines 306-314: the text of the response, else a notice chosen by the
\* candidates.  hasattr() hides a missing attribute only: an exception of
\* the text accessor leaves the try block.
ResponseText(reqs, out) ==
    IF out.attr = "raises" THEN Raised(reqs, out.detail)
    ELSE IF out.attr = "value" /\ Truthy(out.text) THEN Returned(reqs, out.text)
    ELSE IF out.candidates > 0 THEN Returned(reqs, BlockedNotice)
    ELSE Returned(reqs, NoResponseNotice)

\* Line 304 and what follows it.
Generate(model, temp, parts, out) ==
    LET reqs == <<Request(model, temp, parts)>>
    IN  IF out.kind = "raise" THEN Raised(reqs, out.detail)
        ELSE ResponseText(reqs, out)

\* Lines 263-314.
TryBlock(text, file, model, temp, out) ==
    IF file # NoFile
    THEN IF file.kind = "corrupt" THEN Raised(<< >>, DecodeError)
         ELSE IF ImageTooLarge(file.size) THEN Raised(<< >>, SizeError)
         ELSE Generate(model, temp, <<ImagePart(file), TextPart(Prompt(text))>>, out)
    ELSE Generate(model, temp, <<TextPart(Prompt(text))>>, out)

AssistantMessage(text, t) == Message("assistant", text, Strftime(t), NoFile, FALSE)

\* Variant: the error text leaves out the model that was tried.
ErrorContent_NoModel(detail, model) ==
    <<"Error: ">> \o detail
        \o <<"\n\nTry selecting a different model from the sidebar.">>

ErrorContent(detail, model) ==
    <<"Error: ">> \o detail \o <<"\n\nModel tried: ">> \o <<model>>
        \o <<"\n\nTry selecting a different model from the sidebar.">>

ErrorMessage(detail, model, t) ==
    Message("assistant", ErrorContent(detail, model), Strftime(t), NoFile, TRUE)

\* Variant: the except branch records nothing.
Record_DropOnError(msgs, res, model, t) ==
    IF res.raised
    THEN msgs
    ELSE StoreAppend(msgs, AssistantMessage(res.response, t))

\* Lines 316-333: the message the try block or its except branch appends.
Record(msgs, res, model, t) ==
    IF res.raised
    THEN StoreAppend(msgs, ErrorMessage(res.detail, model, t))
    ELSE StoreAppend(msgs, AssistantMessage(res.response, t))

-----------------------------------------------------------------------------
(* Script runs                                                             *)

\* What is kept of a run: the button that started it, the session state it
\* started from, the widget values it read and, if it called the service,
\* what the service did.
RunRecord(op, text, file, model, out) ==
    [op |-> op, key |-> api_key, flag |-> api_key_configured, pre |-> messages,
     user_input |-> text, uploaded_file |-> file, model_option |-> model,
     outcome |-> out]

Init ==
    /\ messages = << >>
    /\ api_key_configured = FALSE
    /\ gemini_model = "None"
    /\ api_key = EmptyStr
    /\ gate_notice = "missing"
    /\ notice = "none"
    /\ requests = << >>
    /\ run = [op |-> "start", key |-> EmptyStr, flag |-> FALSE, pre |-> << >>,
              user_input |-> EmptyStr, uploaded_file |-> NoFile,
              model_option |-> "gemini-2.5-flash", outcome |-> NoOutcome]

\* A run with no button pressed: the key widget holds k.
Rerun(k) ==
    LET gate == CredentialGate(k)
    IN  /\ api_key' = k
        /\ api_key_configured' = gate.configured
        /\ gate_notice' = gate.notice
        /\ notice' = "none"
        /\ requests' = << >>
        /\ run' = RunRecord("rerun", EmptyStr, NoFile, "gemini-2.5-flash", NoOutcome)
        /\ UNCHANGED <<messages, gemini_model>>

\* The run of a click on "Clear Chat History", and the rerun it asks for.
Clear ==
    LET gate == CredentialGate(api_key)
    IN  /\ api_key_configured' = gate.configured
        /\ gate_notice' = gate.notice
        /\ messages' = ClearedStore(messages)
        /\ notice' = "none"
        /\ requests' = << >>
        /\ run' = RunRecord("clear", EmptyStr, NoFile, "gemini-2.5-flash", NoOutcome)
        /\ UNCHANGED <<gemini_model, api_key>>

\* The run of a click on "Send Message"; an accepted send ends in st.rerun(),
\* which redraws the page from the store.
Send(text, file, model, temp, out, t1, t2) ==
    LET gate == CredentialGate(api_key)
        res == TryBlock(text, file, model, temp, out)
        called == res.requests # << >>
    IN  /\ api_key_configured' = gate.configured
        /\ gate_notice' = gate.notice
        /\ UNCHANGED <<gemini_model, api_key>>
        /\ IF NotConfigured(gate.configured)
           THEN /\ notice' = "config_error"
                /\ requests' = << >>
                /\ run' = RunRecord("send", text, file, model, NoOutcome)
                /\ UNCHANGED messages
           ELSE IF InputMissing(text, file)
           THEN /\ notice' = "input_warning"
                /\ requests' = << >>
                /\ run' = RunRecord("send", text, file, model, NoOutcome)
                /\ UNCHANGED messages
           ELSE /\ Len(messages) + 2 <= MaxMsgs
                /\ messages' = Record(StoreAppend(messages, UserMessage(text, file, t1)),
                                      res, model, t2)
                /\ requests' = res.requests
                /\ notice' = "none"
                /\ run' = RunRecord("send", text, file, model,
                                    IF called THEN out ELSE NoOutcome)

Next ==
    \/ \E k \in Keys : Rerun(k)
    \/ Clear
    \/ \E text \in Texts, file \in Files, model \in Models, temp \in Temperatures,
          out \in Outcomes, t1 \in Times :
          \E t2 \in {t \in Times : t >= t1} :
              Send(text, file, model, temp, out, t1, t2)

Spec == Init /\ [][Next]_vars

TypeOK ==
    /\ Len(messages) <= MaxMsgs
    /\ api_key_configured \in BOOLEAN
    /\ api_key \in Keys
    /\ Len(requests) <= 1
    /\ Models \subseteq ModelOptions
    /\ run.model_option \in ModelOptions
    /\ api_key_configured = CredentialGate(api_key).configured

-----------------------------------------------------------------------------
(* Properties                                                              *)

\* The latest run was a click on Send.
SendRun == run.op = "send"

\* The latest run was a send the two checks of the handler let through:
\* credential configured, and a text or an image present.
AcceptedSend ==
    /\ SendRun
    /\ api_key_configured
    /\ (run.user_input # << >> \/ run.uploaded_file # NoFile)

\* The store is the store the run started from plus two messages.
GainedTwo ==
    /\ Len(messages) = Len(run.pre) + 2
    /\ SubSeq(messages, 1, Len(run.pre)) = run.pre

UserSlot == messages[Len(run.pre) + 1]
AssistantSlot == messages[Len(run.pre) + 2]

\* C1: with no credential configured, a send, whatever its text and image,
\* shows the configuration-error warning, leaves the store as it was and
\* calls the remote service not at all.
C1_NoCredentialBlocksSend ==
    (SendRun /\ ~api_key_configured) =>
        /\ notice = "config_error"
        /\ messages = run.pre
        /\ requests = << >>

C1_Witness ==
    /\ SendRun /\ ~api_key_configured
    /\ run.user_input # << >> /\ run.uploaded_file.kind = "image"
    /\ Len(messages) = 2
    /\ notice = "config_error"

\* C2: with the credential configured, a send with neither text nor image is
\* refused with a warning; the store and the credential flag stay as they
\* were and the remote service is not called.
C2_EmptySendRejected ==
    (SendRun /\ api_key_configured /\ run.user_input = << >>
        /\ run.uploaded_file = NoFile) =>
        /\ notice = "input_warning"
        /\ messages = run.pre
        /\ api_key_configured = run.flag
        /\ requests = << >>

C2_Witness ==
    /\ SendRun /\ api_key_configured
    /\ run.user_input = << >> /\ run.uploaded_file = NoFile
    /\ Len(messages) = 2
    /\ notice = "input_warning"

\* C3: with the credential configured, sending non-empty text T without an
\* image, the remote call returning non-empty text R, adds exactly two
\* messages at the end of the store: a user message with content T, then an
\* assistant message with content R that is not error-flagged; the earlier
\* messages stay where and what they were.
C3_TextSendGainsUserAndReply ==
    (SendRun /\ api_key_configured /\ run.user_input # << >>
        /\ run.uploaded_file = NoFile
        /\ run.outcome.kind = "response" /\ run.outcome.attr = "value"
        /\ run.outcome.text # << >>) =>
        /\ GainedTwo
        /\ UserSlot.role = "user"
        /\ UserSlot.content = run.user_input
        /\ AssistantSlot.role = "assistant"
        /\ AssistantSlot.content = run.outcome.text
        /\ ~AssistantSlot.is_error

C3_Witness ==
    /\ SendRun /\ api_key_configured
    /\ run.user_input = <<"Hello">> /\ run.uploaded_file = NoFile
    /\ run.outcome.text = <<"Hi there">>
    /\ Len(run.pre) = 2 /\ Len(messages) = 4
    /\ messages[4].content = <<"Hi there">>

\* C4: when the remote call raises a failure with detail D during a send
\* with model M, the send still completes and the assistant message it
\* appends is error-flagged and contains D and M; and the message a send
\* appends is error-flagged only if a failure was raised in it (by the call,
\* by reading the response, or by the image check).
C4_RemoteFailureRecorded ==
    /\ (SendRun /\ run.outcome.kind = "raise") =>
          /\ GainedTwo
          /\ AssistantSlot.role = "assistant"
          /\ AssistantSlot.is_error
          /\ Contains(AssistantSlot.content, run.outcome.detail)
          /\ Contains(AssistantSlot.content, <<run.model_option>>)
    /\ (SendRun /\ Len(messages) = Len(run.pre) + 2 /\ AssistantSlot.is_error) =>
          \/ run.outcome.kind = "raise"
          \/ run.outcome.attr = "raises"
          \/ run.uploaded_file.kind = "corrupt"
          \/ (run.uploaded_file.kind = "image" /\ run.uploaded_file.size > 4194304)

C4_Witness ==
    /\ SendRun /\ run.outcome.kind = "raise"
    /\ run.outcome.detail = <<"quota exceeded">>
    /\ run.model_option = "gemini-pro-latest"
    /\ Len(messages) = Len(run.pre) + 2
    /\ messages[Len(messages)].is_error

\* C5: with the credential configured, an image whose re-encoded size is
\* above 4,194,304 bytes gives an error-flagged assistant message that
\* mentions the size limit, with no remote call; an image of 4,194,304 bytes
\* or less passes the size check and the remote call is made.
C5_ImageSizeLimit ==
    (SendRun /\ api_key_configured /\ run.uploaded_file.kind = "image") =>
        /\ GainedTwo
        /\ IF run.uploaded_file.size > 4194304
           THEN /\ AssistantSlot.is_error
                /\ Contains(AssistantSlot.content, <<"Image size exceeds 4MB limit">>)
                /\ requests = << >>
           ELSE /\ ~Contains(AssistantSlot.content, <<"Image size exceeds 4MB limit">>)
                /\ Len(requests) = 1

C5_Witness ==
    /\ SendRun /\ api_key_configured
    /\ run.uploaded_file.kind = "image" /\ run.uploaded_file.size > 4194304
    /\ Len(messages) = Len(run.pre) + 2
    /\ messages[Len(messages)].is_error
    /\ requests = << >>

\* C6: the clear action leaves a store of length 0 whatever the store held
\* and whatever the credential state, and changes nothing else of the
\* session state: the credential flag, the key and the model slot stay.
C6_ClearEmptiesStoreOnly ==
    (run.op = "clear") =>
        /\ Len(messages) = 0
        /\ api_key_configured = run.flag
        /\ api_key = run.key
        /\ gemini_model = "None"

C6_Witness ==
    /\ run.op = "clear"
    /\ Len(run.pre) = 4
    /\ run.flag
    /\ messages = << >>

\* C7: between clears the store is append-only: a run that is not a clear
\* leaves the store it started from as a prefix of the store it ends with.
C7_AppendOnlyBetweenClears ==
    (run.op # "clear") => IsPrefix(run.pre, messages)

C7_Witness ==
    /\ SendRun
    /\ Len(run.pre) = 2
    /\ Len(messages) = 4
    /\ IsPrefix(run.pre, messages)

C9_OneUserOneAssistantPerSend ==
    /\ AcceptedSend =>
          /\ GainedTwo
          /\ UserSlot.role = "user"
          /\ AssistantSlot.role = "assistant"
          /\ Len(requests) <= 1
    /\ Len(messages) % 2 = 0
    /\ \A i \in 1..Len(messages) :
          /\ messages[i].role = (IF i % 2 = 1 THEN "user" ELSE "assistant")
          /\ (messages[i].role = "user" => ~messages[i].is_error)

C9_Witness ==
    /\ AcceptedSend
    /\ Len(run.pre) = 2 /\ Len(messages) = 4
    /\ messages[2].is_error
    /\ ~messages[4].is_error
    /\ Len(requests) = 1

\* C10: every stored message has non-empty content or an image; a user
\* message sent with an image and no text is stored with a non-empty default
\* content; so the render loop skips no stored message.
C10_NoEmptyMessageStored ==
    /\ \A i \in 1..Len(messages) :
          messages[i].content # << >> \/ messages[i].image # NoFile
    /\ (AcceptedSend /\ run.user_input = << >>) =>
          /\ Len(messages) = Len(run.pre) + 2
          /\ UserSlot.content # << >>
    /\ Len(Rendered(messages)) = Len(messages)

C10_Witness ==
    /\ AcceptedSend /\ run.user_input = << >>
    /\ run.uploaded_file.kind = "image"
    /\ Len(messages) = Len(run.pre) + 2
    /\ messages[Len(run.pre) + 1].image = run.uploaded_file
    /\ messages[Len(run.pre) + 1].content = <<"Please analyze this image.">>

=============================================================================
